---- MODULE Spec2Model ----
(***************************************************************************)
(* Gamification engine of the Campus Club Management Suite: the points     *)
(* ledger (UserPoints / PointsTransaction), leveling, streaks and the      *)
(* badge evaluation that re-enters the ledger through post_save handlers.  *)
(* One account is modelled; the store holds its UserPoints row, its        *)
(* PointsTransaction rows, its UserBadge rows and Badge.total_earned, its   *)
(* UserAchievement rows and Achievement.total_completed.  Around it: the    *)
(* badge_earned notifications, the requirements stored on the badges, the  *)
(* account's registration for one event, and the user rows that the        *)
(* leaderboard ranking reads and writes.                                   *)
(***************************************************************************)
EXTENDS Integers, Sequences, FiniteSets, TLC

\* ------------------------------------------------------------------ bounds
MaxOps == 3
MaxAdvances == 2
MaxConcOps == 3
MaxBadgeOps == 3
MaxAchOps == 7
MaxDirectOps == 3
MaxRankOps == 3
MaxNotifyOps == 3
MaxTrackOps == 3
MaxAchConcOps == 6
MaxEventOps == 4
MaxLoginOps == 2
MaxLoginDays == 6

\* ------------------------------------------------------- program constants
RetentionDays == 90
BaseLevelRequirement == 100
LevelRequirementStep == 50
LevelBonusFactor == 50
StreakMilestoneFactor == 10

\* ------------------------------------------------------------ small helpers
Max(a, b) == IF a >= b THEN a ELSE b

RECURSIVE SumPoints(_)
SumPoints(s) == IF s = <<>> THEN 0 ELSE s[1].points + SumPoints(Tail(s))

\* ----------------------------------------------------------- badge catalog
\* Badge rows written by create_default_badges, listed in the order of
\* Badge.Meta.ordering = ['difficulty', 'name'] (what .first() follows).
BadgeCatalog ==
    << [name |-> "First Steps", chars |-> <<"F","i","r","s","t"," ","S","t","e","p","s">>,
        difficulty |-> "bronze", points_reward |-> 10, is_active |-> TRUE],
       [name |-> "Streak Starter", chars |-> <<"S","t","r","e","a","k"," ","S","t","a","r","t","e","r">>,
        difficulty |-> "bronze", points_reward |-> 50, is_active |-> TRUE],
       [name |-> "Collaborator", chars |-> <<"C","o","l","l","a","b","o","r","a","t","o","r">>,
        difficulty |-> "gold", points_reward |-> 200, is_active |-> TRUE],
       [name |-> "Leader", chars |-> <<"L","e","a","d","e","r">>,
        difficulty |-> "gold", points_reward |-> 150, is_active |-> TRUE],
       [name |-> "Point Master", chars |-> <<"P","o","i","n","t"," ","M","a","s","t","e","r">>,
        difficulty |-> "gold", points_reward |-> 200, is_active |-> TRUE],
       [name |-> "Streak Master", chars |-> <<"S","t","r","e","a","k"," ","M","a","s","t","e","r">>,
        difficulty |-> "platinum", points_reward |-> 300, is_active |-> TRUE],
       [name |-> "Club Enthusiast", chars |-> <<"C","l","u","b"," ","E","n","t","h","u","s","i","a","s","t">>,
        difficulty |-> "silver", points_reward |-> 100, is_active |-> TRUE],
       [name |-> "Event Goer", chars |-> <<"E","v","e","n","t"," ","G","o","e","r">>,
        difficulty |-> "silver", points_reward |-> 75, is_active |-> TRUE],
       [name |-> "Point Collector", chars |-> <<"P","o","i","n","t"," ","C","o","l","l","e","c","t","o","r">>,
        difficulty |-> "silver", points_reward |-> 50, is_active |-> TRUE],
       [name |-> "Social Butterfly", chars |-> <<"S","o","c","i","a","l"," ","B","u","t","t","e","r","f","l","y">>,
        difficulty |-> "silver", points_reward |-> 75, is_active |-> TRUE] >>

BadgeNames == {BadgeCatalog[i].name : i \in 1..Len(BadgeCatalog)}

BadgeReward(b) ==
    LET i == CHOOSE j \in 1..Len(BadgeCatalog) : BadgeCatalog[j].name = b
    IN  BadgeCatalog[i].points_reward

\* The requirements JSON that create_default_badges stores on each badge:
\* one key field__gte with a number.
DefaultRequirements ==
    [b \in BadgeNames |->
       CASE b = "First Steps"      -> [field |-> "total_points", value |-> 10]
         [] b = "Point Collector"  -> [field |-> "total_points", value |-> 500]
         [] b = "Point Master"     -> [field |-> "total_points", value |-> 2000]
         [] b = "Social Butterfly" -> [field |-> "social_points", value |-> 200]
         [] b = "Leader"           -> [field |-> "leadership_points", value |-> 300]
         [] b = "Streak Starter"   -> [field |-> "current_streak", value |-> 7]
         [] b = "Streak Master"    -> [field |-> "current_streak", value |-> 30]
         [] b = "Club Enthusiast"  -> [field |-> "clubs_joined", value |-> 3]
         [] b = "Event Goer"       -> [field |-> "events_attended", value |-> 5]
         [] OTHER                  -> [field |-> "collaborations_completed", value |-> 2]]

\* The hard-coded badge_requirements dict of check_user_badges, in insertion
\* order.  kind "custom" is a custom_check lambda; the others compare one
\* field of the points profile with operator gte.
badge_requirements ==
    << [key |-> "first_steps", chars |-> <<"f","i","r","s","t","_","s","t","e","p","s">>,
        kind |-> "field", field |-> "total_points", value |-> 50],
       [key |-> "point_collector", chars |-> <<"p","o","i","n","t","_","c","o","l","l","e","c","t","o","r">>,
        kind |-> "field", field |-> "total_points", value |-> 500],
       [key |-> "point_master", chars |-> <<"p","o","i","n","t","_","m","a","s","t","e","r">>,
        kind |-> "field", field |-> "total_points", value |-> 2000],
       [key |-> "level_up", chars |-> <<"l","e","v","e","l","_","u","p">>,
        kind |-> "field", field |-> "level", value |-> 5],
       [key |-> "social_butterfly", chars |-> <<"s","o","c","i","a","l","_","b","u","t","t","e","r","f","l","y">>,
        kind |-> "field", field |-> "social_points", value |-> 200],
       [key |-> "leader", chars |-> <<"l","e","a","d","e","r">>,
        kind |-> "field", field |-> "leadership_points", value |-> 300],
       [key |-> "streak_starter", chars |-> <<"s","t","r","e","a","k","_","s","t","a","r","t","e","r">>,
        kind |-> "field", field |-> "current_streak", value |-> 7],
       [key |-> "streak_master", chars |-> <<"s","t","r","e","a","k","_","m","a","s","t","e","r">>,
        kind |-> "field", field |-> "current_streak", value |-> 30],
       [key |-> "club_enthusiast", chars |-> <<"c","l","u","b","_","e","n","t","h","u","s","i","a","s","t">>,
        kind |-> "custom", field |-> "joined_clubs", value |-> 3],
       [key |-> "event_goer", chars |-> <<"e","v","e","n","t","_","g","o","e","r">>,
        kind |-> "custom", field |-> "event_registrations", value |-> 5],
       [key |-> "collaborator", chars |-> <<"c","o","l","l","a","b","o","r","a","t","o","r">>,
        kind |-> "custom", field |-> "collaboration_participations", value |-> 2] >>

UpperCase == <<"A","B","C","D","E","F","G","H","I","J","K","L","M",
               "N","O","P","Q","R","S","T","U","V","W","X","Y","Z">>
LowerCase == <<"a","b","c","d","e","f","g","h","i","j","k","l","m",
               "n","o","p","q","r","s","t","u","v","w","x","y","z">>

ToLower(c) ==
    IF \E i \in 1..Len(UpperCase) : UpperCase[i] = c
    THEN LowerCase[CHOOSE i \in 1..Len(UpperCase) : UpperCase[i] = c]
    ELSE c

\* name__icontains=key : case-insensitive substring test.
icontains(name, key) ==
    \E off \in 0..(Len(name) - Len(key)) :
        \A j \in 1..Len(key) : ToLower(name[off + j]) = ToLower(key[j])

\* Badge.objects.filter(name__icontains=badge_name, is_active=True).first():
\* the badge name found for each entry of badge_requirements, "" for None.
BadgeForKey ==
    [i \in 1..Len(badge_requirements) |->
        LET hits == {j \in 1..Len(BadgeCatalog) :
                        /\ BadgeCatalog[j].is_active
                        /\ icontains(BadgeCatalog[j].chars, badge_requirements[i].chars)}
        IN  IF hits = {} THEN ""
            ELSE BadgeCatalog[CHOOSE j \in hits : \A k \in hits : j <= k].name]

\* ------------------------------------------------------------ activity table
\* points_map of award_points_for_activity; streak_milestone is the lambda
\* entry and is handled in ActivityPoints.
points_map ==
    [club_join |-> 50, club_create |-> 100, club_leadership |-> 200,
     event_register |-> 10, event_attend |-> 25, event_create |-> 75,
     event_organize |-> 150,
     collaboration_join |-> 100, collaboration_create |-> 200,
     collaboration_complete |-> 300,
     achievement_complete |-> 500, milestone_complete |-> 100,
     daily_login |-> 5, profile_complete |-> 25, first_post |-> 15,
     comment_create |-> 5, like_give |-> 1,
     referral |-> 50, feedback_submit |-> 15]

KnownActivities == DOMAIN points_map \cup {"streak_milestone"}

\* points_map[activity_type], calling the lambda with activity_data.get('value', 1)
ActivityPoints(activity_type, value) ==
    IF activity_type = "streak_milestone" THEN value * StreakMilestoneFactor
    ELSE points_map[activity_type]

ActivityCategory(activity_type) ==
    IF activity_type \in {"club_join", "club_create", "club_leadership"} THEN "social"
    ELSE IF activity_type \in {"event_register", "event_attend", "event_create",
                               "event_organize"} THEN "activity"
    ELSE IF activity_type \in {"collaboration_join", "collaboration_create",
                               "collaboration_complete"} THEN "leadership"
    ELSE IF activity_type \in {"achievement_complete", "milestone_complete"} THEN "academic"
    ELSE "special"

\* ------------------------------------------------------------------ records
\* A UserPoints row with the field defaults; last_activity_date 0 is NULL.
FreshAccount ==
    [total_points |-> 0, lifetime_points |-> 0,
     activity_points |-> 0, social_points |-> 0, leadership_points |-> 0,
     academic_points |-> 0, special_points |-> 0,
     current_streak |-> 0, longest_streak |-> 0, last_activity_date |-> 0,
     level |-> 1, experience_points |-> 0, points_to_next_level |-> 100]

\* PointsTransaction.objects.create(...): no call site passes balance_after,
\* so the row takes the field default.
NewTransaction(points, type, category, day) ==
    [points |-> points, transaction_type |-> type, category |-> category,
     balance_after |-> 0, day |-> day]

\* ---------------------------------------------------------------- leveling
calculate_next_level_requirement(level) ==
    BaseLevelRequirement + (level - 1) * LevelRequirementStep

\* variant: the bonus computed from the level being left
level_bonus_of_old_level(level) == (level - 1) * LevelBonusFactor

level_bonus(level) == level * LevelBonusFactor

\* One iteration of the while loop of _check_level_up, on the instance.
level_up_once(inst) ==
    LET newLevel == inst.level + 1
    IN  [inst EXCEPT !.experience_points = @ - inst.points_to_next_level,
                     !.level = newLevel,
                     !.points_to_next_level = calculate_next_level_requirement(newLevel),
                     !.total_points = @ + level_bonus(newLevel)]

\* Loop condition of _check_level_up.
should_level_up(inst) == inst.experience_points >= inst.points_to_next_level

\* ------------------------------------------------------------------ streak
\* variant: a gap of more than one day does not reset the streak
update_streak_no_reset(inst, day) ==
    IF inst.last_activity_date # 0 /\ inst.last_activity_date = day
    THEN inst
    ELSE LET cs == inst.current_streak + 1
         IN  [inst EXCEPT !.current_streak = cs,
                          !.last_activity_date = day,
                          !.longest_streak = IF cs > @ THEN cs ELSE @]

\* variant: longest_streak is compared with the streak before the update
update_streak_stale_longest(inst, day) ==
    IF inst.last_activity_date # 0 /\ inst.last_activity_date = day
    THEN inst
    ELSE LET cs == IF inst.last_activity_date # 0 /\ inst.last_activity_date = day - 1
                   THEN inst.current_streak + 1
                   ELSE 1
         IN  [inst EXCEPT !.current_streak = cs,
                          !.last_activity_date = day,
                          !.longest_streak = IF inst.current_streak > @
                                             THEN inst.current_streak ELSE @]

update_streak(inst, day) ==
    IF inst.last_activity_date # 0 /\ inst.last_activity_date = day
    THEN inst
    ELSE LET cs == IF inst.last_activity_date # 0 /\ inst.last_activity_date = day - 1
                   THEN inst.current_streak + 1
                   ELSE 1
         IN  [inst EXCEPT !.current_streak = cs,
                          !.last_activity_date = day,
                          !.longest_streak = IF cs > @ THEN cs ELSE @]

\* ------------------------------------------------------------------ ledger
\* First lines of add_points: total, lifetime, experience and the bucket
\* named f"{category}_points" when the instance has that attribute.
credit(inst, points, category) ==
    LET i1 == [inst EXCEPT !.total_points = @ + points,
                           !.lifetime_points = @ + points,
                           !.experience_points = @ + points]
    IN  CASE category = "activity"   -> [i1 EXCEPT !.activity_points = @ + points]
          [] category = "social"     -> [i1 EXCEPT !.social_points = @ + points]
          [] category = "leadership" -> [i1 EXCEPT !.leadership_points = @ + points]
          [] category = "academic"   -> [i1 EXCEPT !.academic_points = @ + points]
          [] category = "special"    -> [i1 EXCEPT !.special_points = @ + points]
          [] OTHER -> i1

\* self.save(): every field of the row is overwritten by the instance.
save(w, inst) == [w EXCEPT !.up = inst]

\* UserPoints.objects.get_or_create(user=...): a fresh instance of the row.
get_or_create(w) == w.up

append_transaction(w, points, type, category, day) ==
    [w EXCEPT !.txns = Append(@, NewTransaction(points, type, category, day))]

\* Requirement test of check_user_badges for one numeric entry.
requirement_met(req, profile) ==
    CASE req.field = "total_points"      -> profile.total_points >= req.value
      [] req.field = "level"             -> profile.level >= req.value
      [] req.field = "social_points"     -> profile.social_points >= req.value
      [] req.field = "leadership_points" -> profile.leadership_points >= req.value
      [] req.field = "current_streak"    -> profile.current_streak >= req.value
      [] OTHER -> FALSE

RECURSIVE add_points(_, _, _, _, _)
RECURSIVE check_level_up(_, _, _)
RECURSIVE check_badges_from(_, _, _, _)

\* check_user_badges(user) where user.points_profile is the instance
\* `profile` (the cached in-memory object, not a fresh read of the row).
check_user_badges(w, profile, day) ==
    check_badges_from([w EXCEPT !.passes = @ + 1], profile, 1, day)

\* post_save of PointsTransaction (signals.check_achievements_on_transaction).
\* check_user_achievements(user, 'points_earned', ...) finds no counter for
\* 'points_earned' in activity_progress_map and changes nothing.
check_achievements_on_transaction(w, profile, points, day) ==
    IF points > 0 THEN check_user_badges(w, profile, day) ELSE w

\* UserBadge.objects.filter(user=user, badge=badge).exists()
user_badge_exists(w, badge) == w.ubadges[badge] > 0

\* variant: UserBadge without the uniqueness constraint
unique_together_absent(w, badge) == TRUE

\* UserBadge.Meta.unique_together = ['user', 'badge']: whether the database
\* accepts one more row of this badge for the account.  When it does not,
\* UserBadge.objects.create raises IntegrityError and no receiver runs.
unique_together(w, badge) == w.ubadges[badge] = 0

\* notifications.signals.notify_badge_earned: the notification is created
\* inside try / except Exception, which prints the failure and returns.
notify_badge_earned(w, badge) ==
    IF w.notify_raises THEN w ELSE [w EXCEPT !.notifications = @ + 1]

\* variant: notify_badge_earned without its try block, connected before the
\* other receivers: the exception leaves UserBadge.objects.create after the
\* insert, before the counter and the reward
create_user_badge_notification_uncaught(w, badge, day) ==
    IF w.notify_raises
    THEN [w EXCEPT !.ubadges[badge] = @ + 1]
    ELSE LET count0 == w.total_earned[badge]
             w1 == [w EXCEPT !.ubadges[badge] = @ + 1,
                             !.total_earned[badge] = count0 + 1]
             w2 == add_points(w1, get_or_create(w1), BadgeReward(badge), "special", day)
         IN  notify_badge_earned([w2 EXCEPT !.total_earned[badge] = count0 + 2], badge)

\* UserBadge.objects.create and its post_save receivers: models.update_badge_stats
\* (counter, then the reward through a freshly loaded UserPoints),
\* signals.update_badge_stats (counter again, on the same in-memory Badge
\* object), notify_badge_earned (its place among the receivers follows the
\* order of the installed apps; it touches Notification rows only).
create_user_badge(w, badge, day) ==
    LET count0 == w.total_earned[badge]
        w1 == [w EXCEPT !.ubadges[badge] = @ + 1,
                        !.total_earned[badge] = count0 + 1]
        w2 == add_points(w1, get_or_create(w1), BadgeReward(badge), "special", day)
    IN  notify_badge_earned([w2 EXCEPT !.total_earned[badge] = count0 + 2], badge)

check_badges_from(w, profile, i, day) ==
    IF i > Len(badge_requirements) THEN w
    ELSE LET req == badge_requirements[i]
             badge == BadgeForKey[i]
         IN  IF badge = "" THEN check_badges_from(w, profile, i + 1, day)
             ELSE IF user_badge_exists(w, badge)
                  THEN check_badges_from(w, profile, i + 1, day)
             \* custom_check: the only such entry that finds a badge is
             \* 'collaborator', whose lambda reads user.collaboration_participations,
             \* a reverse relation of Club and not of User: AttributeError, caught
             \* by the except clause, which continues with the next entry
             ELSE IF req.kind = "custom" THEN check_badges_from(w, profile, i + 1, day)
             \* IntegrityError of the insert: caught as well, next entry
             ELSE IF requirement_met(req, profile) /\ unique_together(w, badge)
                  THEN check_badges_from(create_user_badge(w, badge, day), profile, i + 1, day)
                  ELSE check_badges_from(w, profile, i + 1, day)

\* variant: `if` in place of `while`, at most one level-up per grant
check_level_up_once(w, inst, day) ==
    IF should_level_up(inst)
    THEN LET i1 == level_up_once(inst)
             bonus == level_bonus(i1.level)
             w1 == append_transaction(w, bonus, "level_bonus", "", day)
         IN  [w |-> check_achievements_on_transaction(w1, i1, bonus, day), inst |-> i1]
    ELSE [w |-> w, inst |-> inst]

check_level_up(w, inst, day) ==
    IF should_level_up(inst)
    THEN LET i1 == level_up_once(inst)
             bonus == level_bonus(i1.level)
             w1 == append_transaction(w, bonus, "level_bonus", "", day)
             w2 == check_achievements_on_transaction(w1, i1, bonus, day)
         IN  check_level_up(w2, i1, day)
    ELSE [w |-> w, inst |-> inst]

add_points(w, inst, points, category, day) ==
    LET i1 == credit(inst, points, category)
        r  == check_level_up(w, i1, day)
        i2 == update_streak(r.inst, day)
        w1 == save(r.w, i2)
        w2 == append_transaction(w1, points, "earned", category, day)
        w3 == check_achievements_on_transaction(w2, i2, points, day)
    IN  check_user_badges(w3, i2, day)

\* variant: the amount is not clamped to the balance
deduct_points_unclamped(w, inst, points, day) ==
    LET i1 == [inst EXCEPT !.total_points = @ - points]
        w1 == save(w, i1)
        w2 == append_transaction(w1, 0 - points, "spent", "", day)
    IN  check_achievements_on_transaction(w2, i1, 0 - points, day)

deduct_points(w, inst, points, day) ==
    LET p  == IF points > inst.total_points THEN inst.total_points ELSE points
        i1 == [inst EXCEPT !.total_points = @ - p]
        w1 == save(w, i1)
        w2 == append_transaction(w1, 0 - p, "spent", "", day)
    IN  check_achievements_on_transaction(w2, i1, 0 - p, day)

\* award_points_for_activity: unknown types return 0 and touch nothing.
award_points_for_activity(w, activity_type, value, day) ==
    IF activity_type \in KnownActivities
    THEN add_points(w, get_or_create(w), ActivityPoints(activity_type, value),
                    ActivityCategory(activity_type), day)
    ELSE w

\* tasks.award_daily_login_points for the account.  The query selects the
\* user when last_login is today and points_profile.last_activity_date is
\* before today (a NULL date is not), and select_related loads the profile
\* with it.  award_points_for_activity works on its own UserPoints object, so
\* user.points_profile still holds the streak as the query loaded it.
award_daily_login_points(w, logged_in_today, day) ==
    IF logged_in_today /\ w.up.last_activity_date # 0 /\ w.up.last_activity_date < day
    THEN IF w.up.current_streak > 0 /\ w.up.current_streak % 7 = 0
         THEN award_points_for_activity(
                  award_points_for_activity(w, "daily_login", 1, day),
                  "streak_milestone", w.up.current_streak, day)
         ELSE award_points_for_activity(w, "daily_login", 1, day)
    ELSE w

\* ----------------------------------------------------------- achievements
\* Achievement rows entered by an administrator: one achievement whose only
\* requirement is five attended events, and two achievements with a time
\* window, one seasonal and one challenge.  end_date 0 is NULL, badge_reward
\* "" is NULL.
AchievementCatalog ==
    [n \in {"Event Regular", "Spring Season", "Spring Challenge"} |->
        CASE n = "Event Regular" ->
                [achievement_type |-> "milestone",
                 requirements |-> [events_attended |-> 5],
                 points_reward |-> 500, badge_reward |-> "", end_date |-> 0,
                 is_active |-> TRUE]
          [] n = "Spring Season" ->
                [achievement_type |-> "seasonal",
                 requirements |-> [clubs_joined |-> 1, events_attended |-> 2],
                 points_reward |-> 250, badge_reward |-> "", end_date |-> 1,
                 is_active |-> TRUE]
          [] n = "Spring Challenge" ->
                [achievement_type |-> "challenge",
                 requirements |-> [clubs_joined |-> 1, events_attended |-> 2],
                 points_reward |-> 250, badge_reward |-> "", end_date |-> 1,
                 is_active |-> TRUE]]

AchievementNames == DOMAIN AchievementCatalog

\* Achievement.is_available (no achievement of the catalogue has a start_date).
is_available(ach, day) ==
    /\ ach.is_active
    /\ ~(ach.end_date # 0 /\ day > ach.end_date)

\* activity_progress_map of check_user_achievements.
activity_progress_map ==
    [club_join |-> "clubs_joined", event_attend |-> "events_attended",
     collaboration_complete |-> "collaborations_completed",
     daily_login |-> "login_days", achievement_complete |-> "achievements_completed"]

\* {} of a JSONField(default=dict)
EmptyProgress == [k \in {} |-> 0]

\* No UserAchievement row of the account for the achievement.
NoUserAchievement ==
    [exists |-> FALSE, status |-> "", progress |-> EmptyProgress, progress_percentage |-> 0,
     completed_at |-> 0, started_at |-> 0]

\* UserAchievement.objects.create(user=user, achievement=achievement): the
\* field defaults; started_at is the position in the order of creation.
NewUserAchievement(seq) ==
    [exists |-> TRUE, status |-> "in_progress", progress |-> EmptyProgress,
     progress_percentage |-> 0, completed_at |-> 0, started_at |-> seq]

\* variant: a counter that is not there yet counts as 1
progress_get_from_one(progress, key) == IF key \in DOMAIN progress THEN progress[key] ELSE 1

\* dict.get(key, 0)
progress_get(progress, key) == IF key \in DOMAIN progress THEN progress[key] ELSE 0

\* dict.update(data)
progress_update(progress, data) ==
    [k \in DOMAIN progress \cup DOMAIN data |->
        IF k \in DOMAIN data THEN data[k] ELSE progress[k]]

\* variant: the percentage is the share of the requirements still open
calculate_progress_percentage_open(requirements, progress, old) ==
    LET total == Cardinality(DOMAIN requirements)
        completed == Cardinality({k \in DOMAIN requirements :
                                    k \in DOMAIN progress /\ progress[k] >= requirements[k]})
    IN  IF total = 0 THEN old ELSE ((total - completed) * 100) \div total

\* _calculate_progress_percentage: int((completed / total) * 100); with the 1
\* and 2 requirements of the catalogue the float product is exact.  Empty
\* requirements leave the stored percentage as it is.
calculate_progress_percentage(requirements, progress, old) ==
    LET total == Cardinality(DOMAIN requirements)
        completed == Cardinality({k \in DOMAIN requirements :
                                    k \in DOMAIN progress /\ progress[k] >= requirements[k]})
    IN  IF total = 0 THEN old ELSE (completed * 100) \div total

\* points_profile.add_points(self.achievement.points_reward, ...) of
\* complete_achievement, on a freshly loaded UserPoints.
grant_points_reward(w, ach, day) ==
    IF ach.points_reward > 0
    THEN add_points(w, get_or_create(w), ach.points_reward, "special", day)
    ELSE w

\* UserBadge.objects.get_or_create(user=..., badge=self.achievement.badge_reward)
grant_badge_reward(w, ach, day) ==
    IF ach.badge_reward # "" /\ ~user_badge_exists(w, ach.badge_reward)
    THEN create_user_badge(w, ach.badge_reward, day)
    ELSE w

\* complete_achievement on the instance `row`, and the self.save() that ends
\* update_progress: status, completed_at, the rewards, total_completed.
complete_achievement(aw, name, row, day) ==
    IF row.status # "completed"
    THEN [w |-> grant_badge_reward(
                    grant_points_reward(aw.w, AchievementCatalog[name], day),
                    AchievementCatalog[name], day),
          uach |-> [aw.uach EXCEPT ![name] =
                       [row EXCEPT !.status = "completed", !.completed_at = day,
                                   !.progress_percentage = 100]],
          total_completed |-> [aw.total_completed EXCEPT ![name] = @ + 1]]
    ELSE [aw EXCEPT !.uach[name] = row]

\* update_progress(progress_data) on the instance `row`, ending in self.save().
update_progress(aw, name, row, data, day) ==
    LET p1 == progress_update(row.progress, data)
        r1 == [row EXCEPT !.progress = p1,
                          !.progress_percentage =
                              calculate_progress_percentage(
                                  AchievementCatalog[name].requirements, p1, @)]
    IN  IF r1.progress_percentage >= 100
        THEN complete_achievement(aw, name, r1, day)
        ELSE [aw EXCEPT !.uach[name] = r1]

\* The rows of the account with status in_progress, by Meta.ordering
\* ['-started_at'].
RECURSIVE by_started_desc(_, _)
by_started_desc(uachs, names) ==
    IF names = {} THEN <<>>
    ELSE LET n == CHOOSE m \in names :
                     \A k \in names : uachs[m].started_at >= uachs[k].started_at
         IN  <<n>> \o by_started_desc(uachs, names \ {n})

in_progress_rows(uachs) ==
    by_started_desc(uachs, {n \in AchievementNames :
                               uachs[n].exists /\ uachs[n].status = "in_progress"})

\* The for loop of check_user_achievements over the rows the query returned.
RECURSIVE advance_rows(_, _, _, _)
advance_rows(aw, names, activity_type, day) ==
    IF names = <<>> THEN aw
    ELSE LET name == Head(names)
             row == aw.uach[name]
         IN  IF ~is_available(AchievementCatalog[name], day)
             THEN advance_rows(aw, Tail(names), activity_type, day)
             ELSE IF activity_type \in DOMAIN activity_progress_map
             THEN LET key == activity_progress_map[activity_type]
                      p1 == progress_update(row.progress,
                                            [k \in {key} |-> progress_get(row.progress, key) + 1])
                      r1 == [row EXCEPT !.progress = p1]
                  IN  advance_rows(update_progress(aw, name, r1, p1, day),
                                   Tail(names), activity_type, day)
             ELSE advance_rows(aw, Tail(names), activity_type, day)

check_user_achievements(aw, activity_type, day) ==
    advance_rows(aw, in_progress_rows(aw.uach), activity_type, day)

\* check_user_badges(user) of a request: user.points_profile is read from the
\* store at that moment.
check_user_badges_of_request(w, day) == check_user_badges(w, get_or_create(w), day)

\* The body of views.track_activity.
track_activity(aw, activity_type, value, day) ==
    check_user_achievements(
        [aw EXCEPT !.w = check_user_badges_of_request(
                             award_points_for_activity(aw.w, activity_type, value, day), day)],
        activity_type, day)

\* What expire_seasonal_achievements selects.
expired_achievement(ach, day) ==
    /\ ach.achievement_type = "seasonal"
    /\ ach.end_date # 0 /\ ach.end_date < day
    /\ ach.is_active

\* variant: the sweep also takes rows that are no longer in progress
expire_seasonal_achievements_any_status(uachs, day) ==
    [n \in AchievementNames |->
        IF uachs[n].exists /\ expired_achievement(AchievementCatalog[n], day)
        THEN [uachs[n] EXCEPT !.status = "expired"]
        ELSE uachs[n]]

\* expire_seasonal_achievements: queryset.update(status='expired') on the
\* in_progress rows of the selected achievements.
expire_seasonal_achievements(uachs, day) ==
    [n \in AchievementNames |->
        IF /\ uachs[n].exists /\ uachs[n].status = "in_progress"
           /\ expired_achievement(AchievementCatalog[n], day)
        THEN [uachs[n] EXCEPT !.status = "expired"]
        ELSE uachs[n]]

\* ---------------------------------------------------------------- ranking
\* The User rows the ranking reads.  Every user has a points_profile
\* (create_user_points_profile), so points_profile__isnull=False keeps all.
Accounts == {"u1", "u2", "u3"}

\* The columns of authentication.User that take part here: the model declares
\* a foreign key `college` and no field named college_email_domain.
UserFields == {"id", "email", "full_name", "college", "is_active", "created_at"}

NewUser(college) ==
    [is_active |-> TRUE, college |-> college, total_points |-> 0,
     global_rank |-> 0, college_rank |-> 0]

\* The orders in which the store may hold the rows: order_by names
\* total_points only, so rows with equal total_points come back in the order
\* the store happens to keep them.
StoreOrders ==
    { o \in [1..Cardinality(Accounts) -> Accounts] :
        \A i, j \in 1..Cardinality(Accounts) : i # j => o[i] # o[j] }

position(o, u) == CHOOSE i \in 1..Cardinality(Accounts) : o[i] = u

\* filter(is_active=True, points_profile__isnull=False)
ranked_users(us) == { u \in Accounts : us[u].is_active }

\* enumerate(users_by_points, 1) over order_by('-points_profile__total_points')
\* of a store that holds the rows in order o: the number a user is given.
rank_in(us, o, u) ==
    1 + Cardinality({ v \in ranked_users(us) :
                        \/ us[v].total_points > us[u].total_points
                        \/ /\ us[v].total_points = us[u].total_points
                           /\ position(o, v) < position(o, u) })

\* calculate_user_rankings: the global loop writes global_rank; then
\* values('college_email_domain') names a field User does not have, Django
\* raises FieldError and the college loop is never entered.
calculate_user_rankings(us, o) ==
    LET global == [u \in Accounts |->
                     IF u \in ranked_users(us)
                     THEN [us[u] EXCEPT !.global_rank = rank_in(us, o, u)]
                     ELSE us[u]]
    IN  IF "college_email_domain" \in UserFields
        THEN [users |-> [u \in Accounts |->
                           IF u \in ranked_users(us)
                           THEN [global[u] EXCEPT !.college_rank =
                                   1 + Cardinality({ v \in ranked_users(us) :
                                         /\ us[v].college = us[u].college
                                         /\ rank_in(us, o, v) < rank_in(us, o, u) })]
                           ELSE global[u]],
              result |-> "User rankings updated successfully"]
        ELSE [users |-> global, result |-> "FieldError"]


\* ------------------------------------------------------------------- state
VARIABLES
    up,            \* the stored UserPoints row of the account
    txns,          \* the stored PointsTransaction rows, in creation order
    ubadges,       \* per badge, the number of UserBadge rows of the account
    total_earned,  \* Badge.total_earned per badge
    passes,        \* check_user_badges passes run by the last ledger operation
    notifications, \* the badge_earned Notification rows of the account
    response,      \* per worker: how its last badge request ended
    uach,          \* per achievement, the UserAchievement row of the account
    total_completed, \* Achievement.total_completed per achievement
    registration,  \* the EventRegistration row of the account for one event
    requirements,  \* Badge.requirements per badge, as the catalogue stores it
    users,         \* per user: is_active, college, and the ranked UserPoints fields
    task_result,   \* how the last background task ended
    today,         \* timezone.now().date(), as a day number
    advances,      \* how often the clock moved
    nops,          \* operations started so far
    call,          \* the operation handled by the last step, with its input
    pc,            \* per worker: "idle", or "loaded" between reading and saving
    local          \* per worker: the UserPoints instance it loaded and its request

vars == <<up, txns, ubadges, total_earned, passes, notifications, response, uach, total_completed,
          registration, requirements, users, task_result, today, advances, nops, call, pc, local>>

achVars == <<uach, total_completed>>

rankVars == <<users, task_result>>

catalogVars == <<requirements>>

eventVars == <<registration>>

Workers == {1, 2}

\* The store as an operation finds it; passes counts from 0 in each operation.
\* notify_raises: whether create_notification raises during the operation.
World == [up |-> up, txns |-> txns, ubadges |-> ubadges, total_earned |-> total_earned,
          passes |-> 0, notifications |-> notifications, notify_raises |-> FALSE]

Store(w) ==
    /\ up' = w.up
    /\ txns' = w.txns
    /\ ubadges' = w.ubadges
    /\ total_earned' = w.total_earned
    /\ passes' = w.passes
    /\ notifications' = w.notifications

NoBadges == [b \in BadgeNames |-> 0]

\* No EventRegistration row yet; feedback_rating 0 is NULL.
NoRegistration == [exists |-> FALSE, status |-> "", feedback_rating |-> 0]

\* Three registered users, two of one college and one of another.
RegisteredUsers ==
    [u \in Accounts |-> NewUser(IF u = "u3" THEN "c2" ELSE "c1")]
NoResponse == [op |-> "none", status |-> "none", seen_total |-> 0]

NoCall == [op |-> "none", amount |-> 0, category |-> ""]
NoRequest == [op |-> "none", amount |-> 0, category |-> "", inst |-> FreshAccount]

\* ------------------------------------------------------------------ inputs
TrackedActivities == {"event_attend", "collaboration_complete", "streak_milestone"}
MilestoneValues == {-1, 0}
ActivityValues(a) == IF a = "streak_milestone" THEN MilestoneValues ELSE {1}
AwardAmounts == {60}
SpendAmounts == {-5, 30}
AdminBadges == {"First Steps"}
DayJumps == {1, 2}
TaskDayJumps == {1, RetentionDays + 1}
BadgeGrantRequests ==
    { [op |-> "add_points", amount |-> 300, category |-> "leadership"],
      [op |-> "add_points", amount |-> 250, category |-> "activity"] }
RacedBadges == {"Leader"}
RankedGrants == {50}
LoginDayJumps == {1, 2}
FeedbackRatings == {4, 5}
ConcurrentActivities == {"event_attend"}
RequestedActivities == {"", "page_view", "event_attend", "club_join"}
EditedRequirements ==
    { [badge |-> "Leader", field |-> "leadership_points", value |-> 500],
      [badge |-> "Leader", field |-> "leadership_points", value |-> 300] }
NotifiedBadges == {"First Steps", "Event Goer"}
NotifiedGrants == { [amount |-> 300, category |-> "leadership"],
                    [amount |-> 60, category |-> "activity"] }
AchDayJumps == {1}
AchievementActivities == {"event_attend", "club_join"}
ProgressData == { [clubs_joined |-> 1, events_attended |-> 5], [events_attended |-> 0] }
ConcRequests ==
    { [op |-> "add_points", amount |-> 60, category |-> "activity"],
      [op |-> "add_points", amount |-> 150, category |-> "activity"],
      [op |-> "deduct_points", amount |-> 30, category |-> ""] }

Init ==
    /\ up = FreshAccount
    /\ txns = <<>>
    /\ ubadges = NoBadges
    /\ total_earned = [b \in BadgeNames |-> 0]
    /\ passes = 0
    /\ notifications = 0
    /\ response = [p \in Workers |-> NoResponse]
    /\ uach = [n \in AchievementNames |-> NoUserAchievement]
    /\ total_completed = [n \in AchievementNames |-> 0]
    /\ registration = NoRegistration
    /\ requirements = DefaultRequirements
    /\ users = RegisteredUsers
    /\ task_result = "none"
    /\ today = 1
    /\ advances = 0
    /\ nops = 0
    /\ call = NoCall
    /\ pc = [p \in Workers |-> "idle"]
    /\ local = [p \in Workers |-> NoRequest]

\* ----------------------------------------------------------------- actions
\* views.track_activity: award_points_for_activity, then check_user_badges on
\* request.user (whose points_profile is read from the store at that moment),
\* then check_user_achievements; the account has no UserAchievement rows here.
TrackActivity(a, v) ==
    /\ nops < MaxOps
    /\ LET w1 == award_points_for_activity(World, a, v, today)
       IN  Store(check_user_badges(w1, get_or_create(w1), today))
    /\ nops' = nops + 1
    /\ call' = [op |-> a, amount |-> v, category |-> ""]
    /\ UNCHANGED <<response, today, advances, pc, local>>
    /\ UNCHANGED achVars
    /\ UNCHANGED rankVars
    /\ UNCHANGED catalogVars
    /\ UNCHANGED eventVars

\* views.AwardPointsView.post after PointsAwardSerializer accepted the input.
AwardPoints(points, category) ==
    /\ nops < MaxOps
    /\ Store(add_points(World, get_or_create(World), points, category, today))
    /\ nops' = nops + 1
    /\ call' = [op |-> "add_points", amount |-> points, category |-> category]
    /\ UNCHANGED <<response, today, advances, pc, local>>
    /\ UNCHANGED achVars
    /\ UNCHANGED rankVars
    /\ UNCHANGED catalogVars
    /\ UNCHANGED eventVars

\* views.AwardBadgeView.post: 400 when the row exists, else UserBadge create.
AwardBadge(b) ==
    /\ nops < MaxOps
    /\ IF user_badge_exists(World, b) \/ ~unique_together(World, b)
       THEN UNCHANGED <<up, txns, ubadges, total_earned, passes, notifications>>
       ELSE Store(create_user_badge(World, b, today))
    /\ nops' = nops + 1
    /\ call' = [op |-> "award_badge", amount |-> 0, category |-> b]
    /\ UNCHANGED <<response, today, advances, pc, local>>
    /\ UNCHANGED achVars
    /\ UNCHANGED rankVars
    /\ UNCHANGED catalogVars
    /\ UNCHANGED eventVars

\* UserPoints.deduct_points on a freshly loaded instance.
Spend(points) ==
    /\ nops < MaxOps
    /\ Store(deduct_points(World, get_or_create(World), points, today))
    /\ nops' = nops + 1
    /\ call' = [op |-> "deduct_points", amount |-> points, category |-> ""]
    /\ UNCHANGED <<response, today, advances, pc, local>>
    /\ UNCHANGED achVars
    /\ UNCHANGED rankVars
    /\ UNCHANGED catalogVars
    /\ UNCHANGED eventVars

\* tasks.clean_old_transactions: deletes the rows created before now - 90 days.
\* Rows created on the cutoff day are before or after the cutoff depending on
\* the time of day (pastCutoffTime).
CleanOldTransactions(pastCutoffTime) ==
    /\ LET cutoff == today - RetentionDays
           old(t) == t.day < cutoff \/ (pastCutoffTime /\ t.day = cutoff)
       IN  txns' = SelectSeq(txns, LAMBDA t : ~old(t))
    /\ call' = [op |-> "clean_old_transactions", amount |-> 0, category |-> ""]
    /\ UNCHANGED <<up, ubadges, total_earned, passes, notifications, response,
                   today, advances, nops, pc, local>>
    /\ UNCHANGED achVars
    /\ UNCHANGED rankVars
    /\ UNCHANGED catalogVars
    /\ UNCHANGED eventVars

\* The calendar moves on between operations.
AdvanceDay(k) ==
    /\ advances < MaxAdvances
    /\ today' = today + k
    /\ advances' = advances + 1
    /\ call' = NoCall
    /\ UNCHANGED <<up, txns, ubadges, total_earned, passes, notifications, response, nops, pc, local>>
    /\ UNCHANGED achVars
    /\ UNCHANGED rankVars
    /\ UNCHANGED catalogVars
    /\ UNCHANGED eventVars

Next ==
    \/ \E a \in TrackedActivities : \E v \in ActivityValues(a) : TrackActivity(a, v)
    \/ \E points \in AwardAmounts : AwardPoints(points, "activity")
    \/ \E b \in AdminBadges : AwardBadge(b)
    \/ \E points \in SpendAmounts : Spend(points)
    \/ \E k \in DayJumps : AdvanceDay(k)

Spec == Init /\ [][Next]_vars

\* The ledger together with the periodic maintenance task, over long periods.
NextTasks ==
    \/ \E points \in AwardAmounts : AwardPoints(points, "activity")
    \/ \E points \in SpendAmounts : Spend(points)
    \/ \E b \in BOOLEAN : CleanOldTransactions(b)
    \/ \E k \in TaskDayJumps : AdvanceDay(k)

SpecTasks == Init /\ [][NextTasks]_vars

\* ------------------------------------------------- two concurrent workers
\* A worker handles add_points / deduct_points in two store accesses: it
\* reads the row (get_or_create) and later runs the method on that instance,
\* which saves it.  Nothing locks the row in between.
Begin(p, r) ==
    /\ pc[p] = "idle"
    /\ nops < MaxConcOps
    /\ pc' = [pc EXCEPT ![p] = "loaded"]
    /\ local' = [local EXCEPT ![p] = [op |-> r.op, amount |-> r.amount,
                                      category |-> r.category,
                                      inst |-> get_or_create(World)]]
    /\ nops' = nops + 1
    /\ UNCHANGED <<up, txns, ubadges, total_earned, passes, notifications, response,
                   today, advances, call>>
    /\ UNCHANGED achVars
    /\ UNCHANGED rankVars
    /\ UNCHANGED catalogVars
    /\ UNCHANGED eventVars

Complete(p) ==
    /\ pc[p] = "loaded"
    /\ IF local[p].op = "add_points"
       THEN Store(add_points(World, local[p].inst, local[p].amount,
                             local[p].category, today))
       ELSE Store(deduct_points(World, local[p].inst, local[p].amount, today))
    /\ pc' = [pc EXCEPT ![p] = "idle"]
    /\ local' = [local EXCEPT ![p] = NoRequest]
    /\ call' = [op |-> local[p].op, amount |-> local[p].amount,
                category |-> local[p].category]
    /\ UNCHANGED <<response, today, advances, nops>>
    /\ UNCHANGED achVars
    /\ UNCHANGED rankVars
    /\ UNCHANGED catalogVars
    /\ UNCHANGED eventVars

NextConc ==
    \/ \E p \in Workers : \E r \in ConcRequests : Begin(p, r)
    \/ \E p \in Workers : Complete(p)
    \/ \E k \in DayJumps : AdvanceDay(k)

SpecConc == Init /\ [][NextConc]_vars

\* ------------------------------------------- achievements of the account
\* The requests that touch UserAchievement rows, one after another.
AchWorld == [w |-> World, uach |-> uach, total_completed |-> total_completed]

StoreAch(aw) ==
    /\ Store(aw.w)
    /\ uach' = aw.uach
    /\ total_completed' = aw.total_completed

\* The account after three views.join_achievement requests on day 1, one for
\* each achievement of the catalogue: a UserAchievement row with the field
\* defaults for each.
JoinOrder == <<"Event Regular", "Spring Season", "Spring Challenge">>

InitAch ==
    /\ up = FreshAccount
    /\ txns = <<>>
    /\ ubadges = NoBadges
    /\ total_earned = [b \in BadgeNames |-> 0]
    /\ passes = 0
    /\ notifications = 0
    /\ response = [p \in Workers |-> NoResponse]
    /\ uach = [n \in AchievementNames |->
                  NewUserAchievement(CHOOSE i \in 1..Len(JoinOrder) : JoinOrder[i] = n)]
    /\ total_completed = [n \in AchievementNames |-> 0]
    /\ registration = NoRegistration
    /\ requirements = DefaultRequirements
    /\ users = RegisteredUsers
    /\ task_result = "none"
    /\ today = 1
    /\ advances = 0
    /\ nops = 0
    /\ call = NoCall
    /\ pc = [p \in Workers |-> "idle"]
    /\ local = [p \in Workers |-> NoRequest]

\* views.track_activity with the UserAchievement rows of the account.
RecordActivity(a, max) ==
    /\ nops < max
    /\ StoreAch(track_activity(AchWorld, a, 1, today))
    /\ nops' = nops + 1
    /\ call' = [op |-> a, amount |-> 1, category |-> ""]
    /\ UNCHANGED <<response, today, advances, pc, local>>
    /\ UNCHANGED rankVars
    /\ UNCHANGED catalogVars
    /\ UNCHANGED eventVars

\* UserAchievement.update_progress(progress_data) called on a row of the
\* account as the store holds it.
UpdateProgress(name, data) ==
    /\ nops < MaxDirectOps
    /\ uach[name].exists
    /\ StoreAch(update_progress(AchWorld, name, uach[name], data, today))
    /\ nops' = nops + 1
    /\ call' = [op |-> "update_progress", amount |-> 0, category |-> name]
    /\ UNCHANGED <<response, today, advances, pc, local>>
    /\ UNCHANGED rankVars
    /\ UNCHANGED catalogVars
    /\ UNCHANGED eventVars

\* tasks.expire_seasonal_achievements
ExpireSeasonalAchievements ==
    /\ uach' = expire_seasonal_achievements(uach, today)
    /\ call' = [op |-> "expire_seasonal_achievements", amount |-> 0, category |-> ""]
    /\ UNCHANGED <<up, txns, ubadges, total_earned, passes, notifications, response, total_completed,
                   today, advances, nops, pc, local>>
    /\ UNCHANGED rankVars
    /\ UNCHANGED catalogVars
    /\ UNCHANGED eventVars

\* Activity signals, the sweep and the calendar.
NextAch ==
    \/ \E a \in AchievementActivities : RecordActivity(a, MaxAchOps)
    \/ ExpireSeasonalAchievements
    \/ \E k \in AchDayJumps : AdvanceDay(k)

SpecAch == InitAch /\ [][NextAch]_vars

\* The same with direct calls of update_progress.
NextDirect ==
    \/ \E a \in AchievementActivities : RecordActivity(a, MaxDirectOps)
    \/ \E name \in AchievementNames : \E data \in ProgressData : UpdateProgress(name, data)
    \/ ExpireSeasonalAchievements
    \/ \E k \in AchDayJumps : AdvanceDay(k)

SpecDirect == InitAch /\ [][NextDirect]_vars

\* ------------------------------------------ concurrent badge evaluation
\* Two workers run requests that evaluate badges.  A pass of check_user_badges
\* is taken one dict entry at a time, and the insert of a UserBadge row is a
\* store access of its own, after the 'already granted' test.  add_points is
\* cut at its post_save evaluations: local[p].resume says where the caller
\* of the running pass continues.
BadgeLocal(r, inst, resume) ==
    [op |-> r.op, amount |-> r.amount, category |-> r.category, inst |-> inst,
     idx |-> 1, resume |-> resume, visited |-> {}, caught |-> {}]

\* variant: one try block around the whole loop, an exception ends the pass
after_exception_abort(i) == Len(badge_requirements) + 1

\* except Exception: print(...); continue -- the loop goes on with the next entry
after_exception(i) == i + 1

\* The while loop of _check_level_up and what follows it in add_points, up to
\* the next PointsTransaction post_save, which starts a pass on the instance.
ContinueAddPoints(p, r, inst) ==
    IF should_level_up(inst)
    THEN LET i1 == level_up_once(inst)
         IN  /\ txns' = Append(txns, NewTransaction(level_bonus(i1.level),
                                                    "level_bonus", "", today))
             /\ up' = up
             /\ local' = [local EXCEPT ![p] = BadgeLocal(r, i1, "level_up")]
    ELSE LET i2 == update_streak(inst, today)
         IN  /\ up' = i2
             /\ txns' = Append(txns, NewTransaction(r.amount, "earned", r.category, today))
             /\ local' = [local EXCEPT ![p] = BadgeLocal(r, i2, "earned")]

\* A grant request reaches add_points on a freshly loaded instance.
BeginGrant(p, r) ==
    /\ pc[p] = "idle"
    /\ nops < MaxBadgeOps
    /\ ContinueAddPoints(p, r, credit(get_or_create(World), r.amount, r.category))
    /\ pc' = [pc EXCEPT ![p] = "evaluating"]
    /\ nops' = nops + 1
    /\ call' = [op |-> r.op, amount |-> r.amount, category |-> r.category]
    /\ UNCHANGED <<ubadges, total_earned, passes, notifications, response, today, advances>>
    /\ UNCHANGED achVars
    /\ UNCHANGED rankVars
    /\ UNCHANGED catalogVars
    /\ UNCHANGED eventVars

\* tasks.check_badge_achievements: check_user_badges(user) on the stored row.
BeginEvaluation(p) ==
    /\ pc[p] = "idle"
    /\ nops < MaxBadgeOps
    /\ pc' = [pc EXCEPT ![p] = "evaluating"]
    /\ local' = [local EXCEPT ![p] =
                    BadgeLocal([op |-> "check_user_badges", amount |-> 0, category |-> ""],
                               get_or_create(World), "return")]
    /\ nops' = nops + 1
    /\ call' = [op |-> "check_user_badges", amount |-> 0, category |-> ""]
    /\ UNCHANGED <<up, txns, ubadges, total_earned, passes, notifications, response, today, advances>>
    /\ UNCHANGED achVars
    /\ UNCHANGED rankVars
    /\ UNCHANGED catalogVars
    /\ UNCHANGED eventVars

\* The entries for which Badge.objects.filter(...).first() finds nothing only
\* `continue`: the loop runs through them to the next entry with a badge.
next_found(i) ==
    LET found == {j \in i..Len(badge_requirements) : BadgeForKey[j] # ""}
    IN  IF found = {} THEN Len(badge_requirements) + 1
        ELSE CHOOSE j \in found : \A k \in found : j <= k

\* The for loop of check_user_badges from the current entry to the next entry
\* that finds a badge, and that entry up to its insert.
EvaluateEntry(p) ==
    /\ pc[p] = "evaluating"
    /\ local[p].idx <= Len(badge_requirements)
    /\ LET i == next_found(local[p].idx)
           upto == IF i > Len(badge_requirements) THEN Len(badge_requirements) ELSE i
           seen == [local[p] EXCEPT !.visited = @ \cup (local[p].idx..upto)]
       IN  IF i > Len(badge_requirements)
           THEN /\ local' = [local EXCEPT ![p] = [seen EXCEPT !.idx = i]]
                /\ pc' = pc
           ELSE IF user_badge_exists(World, BadgeForKey[i])
           THEN /\ local' = [local EXCEPT ![p] = [seen EXCEPT !.idx = i + 1]]
                /\ pc' = pc
           ELSE IF badge_requirements[i].kind = "custom"
           \* the custom_check lambda raises AttributeError
           THEN /\ local' = [local EXCEPT ![p] = [seen EXCEPT !.idx = after_exception(i),
                                                              !.caught = @ \cup {i}]]
                /\ pc' = pc
           ELSE IF requirement_met(badge_requirements[i], local[p].inst)
           THEN /\ local' = [local EXCEPT ![p] = [seen EXCEPT !.idx = i]]
                /\ pc' = [pc EXCEPT ![p] = "inserting"]
           ELSE /\ local' = [local EXCEPT ![p] = [seen EXCEPT !.idx = i + 1]]
                /\ pc' = pc
    /\ call' = NoCall
    /\ UNCHANGED <<up, txns, ubadges, total_earned, passes, notifications, response, today, advances, nops>>
    /\ UNCHANGED achVars
    /\ UNCHANGED rankVars
    /\ UNCHANGED catalogVars
    /\ UNCHANGED eventVars

\* UserBadge.objects.create inside the try block: the row and its receivers,
\* or IntegrityError, which the except clause swallows.
InsertBadge(p) ==
    /\ pc[p] = "inserting"
    /\ LET i == local[p].idx
           badge == BadgeForKey[i]
       IN  IF unique_together(World, badge)
           THEN /\ Store(create_user_badge(World, badge, today))
                /\ local' = [local EXCEPT ![p].idx = i + 1]
           ELSE /\ UNCHANGED <<up, txns, ubadges, total_earned, passes, notifications>>
                /\ local' = [local EXCEPT ![p].idx = after_exception(i),
                                          ![p].caught = @ \cup {i}]
    /\ pc' = [pc EXCEPT ![p] = "evaluating"]
    /\ call' = NoCall
    /\ UNCHANGED <<response, today, advances, nops>>
    /\ UNCHANGED achVars
    /\ UNCHANGED rankVars
    /\ UNCHANGED catalogVars
    /\ UNCHANGED eventVars

\* The pass is over: back in add_points, or the request returns.
EndPass(p) ==
    /\ pc[p] = "evaluating"
    /\ local[p].idx > Len(badge_requirements)
    /\ CASE local[p].resume = "level_up" ->
              /\ ContinueAddPoints(p, local[p], local[p].inst)
              /\ UNCHANGED <<pc, response>>
         [] local[p].resume = "earned" ->
              \* _check_badge_achievements at the end of add_points
              /\ local' = [local EXCEPT ![p] = BadgeLocal(local[p], local[p].inst, "return")]
              /\ UNCHANGED <<up, txns, pc, response>>
         [] OTHER ->
              /\ pc' = [pc EXCEPT ![p] = "idle"]
              /\ local' = [local EXCEPT ![p] = NoRequest]
              /\ response' = [response EXCEPT ![p] =
                                 [op |-> local[p].op, status |-> "ok",
                                  seen_total |-> local[p].inst.total_points]]
              /\ UNCHANGED <<up, txns>>
    /\ call' = NoCall
    /\ UNCHANGED <<ubadges, total_earned, passes, notifications, today, advances, nops>>
    /\ UNCHANGED achVars
    /\ UNCHANGED rankVars
    /\ UNCHANGED catalogVars
    /\ UNCHANGED eventVars

\* views.AwardBadgeView.post up to the 'already has this badge' test.
BeginAwardBadge(p, b) ==
    /\ pc[p] = "idle"
    /\ nops < MaxBadgeOps
    /\ IF user_badge_exists(World, b)
       THEN /\ response' = [response EXCEPT ![p] =
                               [op |-> "award_badge", status |-> "bad_request",
                                seen_total |-> 0]]
            /\ UNCHANGED <<pc, local>>
       ELSE /\ pc' = [pc EXCEPT ![p] = "awarding"]
            /\ local' = [local EXCEPT ![p] = [op |-> "award_badge", amount |-> 0,
                                              category |-> b, inst |-> FreshAccount]]
            /\ UNCHANGED response
    /\ nops' = nops + 1
    /\ call' = [op |-> "award_badge", amount |-> 0, category |-> b]
    /\ UNCHANGED <<up, txns, ubadges, total_earned, passes, notifications, today, advances>>
    /\ UNCHANGED achVars
    /\ UNCHANGED rankVars
    /\ UNCHANGED catalogVars
    /\ UNCHANGED eventVars

\* The UserBadge.objects.create of the view, outside any try block: the row
\* and 201, or IntegrityError leaving the view.
CompleteAwardBadge(p) ==
    /\ pc[p] = "awarding"
    /\ LET badge == local[p].category
       IN  IF unique_together(World, badge)
           THEN /\ Store(create_user_badge(World, badge, today))
                /\ response' = [response EXCEPT ![p] =
                                   [op |-> "award_badge", status |-> "created",
                                    seen_total |-> 0]]
           ELSE /\ UNCHANGED <<up, txns, ubadges, total_earned, passes, notifications>>
                /\ response' = [response EXCEPT ![p] =
                                   [op |-> "award_badge", status |-> "error",
                                    seen_total |-> 0]]
    /\ pc' = [pc EXCEPT ![p] = "idle"]
    /\ local' = [local EXCEPT ![p] = NoRequest]
    /\ call' = NoCall
    /\ UNCHANGED <<today, advances, nops>>
    /\ UNCHANGED achVars
    /\ UNCHANGED rankVars
    /\ UNCHANGED catalogVars
    /\ UNCHANGED eventVars

NextBadges ==
    \/ \E p \in Workers : \E r \in BadgeGrantRequests : BeginGrant(p, r)
    \/ \E p \in Workers : BeginEvaluation(p)
    \/ \E p \in Workers : EvaluateEntry(p)
    \/ \E p \in Workers : InsertBadge(p)
    \/ \E p \in Workers : EndPass(p)
    \/ \E p \in Workers : \E b \in RacedBadges : BeginAwardBadge(p, b)
    \/ \E p \in Workers : CompleteAwardBadge(p)

SpecBadges == Init /\ [][NextBadges]_vars

\* ------------------------------------------------------- leaderboard ranks
\* The user rows change between ranking passes: a ledger operation on a user's
\* account moves its total_points, an administrator deactivates a user.
ledgerVars == <<up, txns, ubadges, total_earned, passes, notifications, response, uach, total_completed,
                today, advances, pc, local>>

ChangePoints(u, points) ==
    /\ nops < MaxRankOps
    /\ users' = [users EXCEPT ![u].total_points = @ + points]
    /\ nops' = nops + 1
    /\ call' = [op |-> "change_points", amount |-> points, category |-> u]
    /\ UNCHANGED task_result
    /\ UNCHANGED ledgerVars
    /\ UNCHANGED catalogVars
    /\ UNCHANGED eventVars

Deactivate(u) ==
    /\ nops < MaxRankOps
    /\ users[u].is_active
    /\ users' = [users EXCEPT ![u].is_active = FALSE]
    /\ nops' = nops + 1
    /\ call' = [op |-> "deactivate", amount |-> 0, category |-> u]
    /\ UNCHANGED task_result
    /\ UNCHANGED ledgerVars
    /\ UNCHANGED catalogVars
    /\ UNCHANGED eventVars

\* tasks.update_user_rankings, with the store holding the rows in order o.
UpdateUserRankings(o) ==
    /\ LET r == calculate_user_rankings(users, o)
       IN  /\ users' = r.users
           /\ task_result' = r.result
    /\ call' = [op |-> "update_user_rankings", amount |-> 0, category |-> ""]
    /\ UNCHANGED nops
    /\ UNCHANGED ledgerVars
    /\ UNCHANGED catalogVars
    /\ UNCHANGED eventVars

NextRank ==
    \/ \E u \in Accounts : \E points \in RankedGrants : ChangePoints(u, points)
    \/ \E u \in Accounts : Deactivate(u)
    \/ \E o \in StoreOrders : UpdateUserRankings(o)

SpecRank == Init /\ [][NextRank]_vars

\* ------------------------------------------------ badge notifications
\* The requests that grant badges, with the notification service up or down:
\* raises tells whether create_notification raises during the request.
AwardBadgeNotifying(b, raises) ==
    /\ nops < MaxNotifyOps
    /\ IF user_badge_exists(World, b) \/ ~unique_together(World, b)
       THEN UNCHANGED <<up, txns, ubadges, total_earned, passes, notifications>>
       ELSE Store(create_user_badge([World EXCEPT !.notify_raises = raises], b, today))
    /\ nops' = nops + 1
    /\ call' = [op |-> "award_badge", amount |-> 0, category |-> b]
    /\ UNCHANGED <<response, today, advances, pc, local>>
    /\ UNCHANGED achVars
    /\ UNCHANGED rankVars
    /\ UNCHANGED catalogVars
    /\ UNCHANGED eventVars

AwardPointsNotifying(points, category, raises) ==
    /\ nops < MaxNotifyOps
    /\ Store(add_points([World EXCEPT !.notify_raises = raises], get_or_create(World),
                        points, category, today))
    /\ nops' = nops + 1
    /\ call' = [op |-> "add_points", amount |-> points, category |-> category]
    /\ UNCHANGED <<response, today, advances, pc, local>>
    /\ UNCHANGED achVars
    /\ UNCHANGED rankVars
    /\ UNCHANGED catalogVars
    /\ UNCHANGED eventVars

NextNotify ==
    \/ \E b \in NotifiedBadges : \E raises \in BOOLEAN : AwardBadgeNotifying(b, raises)
    \/ \E r \in NotifiedGrants : \E raises \in BOOLEAN :
          AwardPointsNotifying(r.amount, r.category, raises)
    \/ \E k \in AchDayJumps : AdvanceDay(k)

SpecNotify == Init /\ [][NextNotify]_vars

\* ------------------------------------------------- track_activity requests
\* views.track_activity with its responses: 400 when activity_type is missing
\* or empty, else the three calls and a 200 response that carries
\* points_awarded (in seen_total), whatever the activity type is.
TrackActivityRequest(a) ==
    /\ nops < MaxTrackOps
    /\ IF a = ""
       THEN /\ response' = [response EXCEPT ![1] =
                               [op |-> "track_activity", status |-> "bad_request",
                                seen_total |-> 0]]
            /\ UNCHANGED <<up, txns, ubadges, total_earned, passes, notifications>>
            /\ UNCHANGED achVars
       ELSE /\ StoreAch(track_activity(AchWorld, a, 1, today))
            /\ response' = [response EXCEPT ![1] =
                               [op |-> "track_activity", status |-> "ok",
                                seen_total |-> IF a \in KnownActivities
                                               THEN ActivityPoints(a, 1) ELSE 0]]
    /\ nops' = nops + 1
    /\ call' = [op |-> a, amount |-> 1, category |-> ""]
    /\ UNCHANGED <<today, advances, pc, local>>
    /\ UNCHANGED rankVars
    /\ UNCHANGED catalogVars
    /\ UNCHANGED eventVars

NextTrack ==
    \/ \E a \in RequestedActivities : TrackActivityRequest(a)
    \/ \E k \in AchDayJumps : AdvanceDay(k)

SpecTrack == InitAch /\ [][NextTrack]_vars

\* ------------------------------------------------------ the badge catalogue
\* admin.BadgeAdmin: an administrator edits the requirements of a badge.
EditRequirements(e) ==
    /\ requirements' = [requirements EXCEPT ![e.badge] = [field |-> e.field, value |-> e.value]]
    /\ call' = [op |-> "edit_requirements", amount |-> e.value, category |-> e.badge]
    /\ UNCHANGED nops
    /\ UNCHANGED ledgerVars
    /\ UNCHANGED rankVars
    /\ UNCHANGED eventVars

NextCatalog ==
    \/ \E e \in EditedRequirements : EditRequirements(e)
    \/ \E r \in BadgeGrantRequests : AwardPoints(r.amount, r.category)
    \/ \E k \in DayJumps : AdvanceDay(k)

SpecCatalog == Init /\ [][NextCatalog]_vars

\* ------------------------------------- concurrent achievement advancement
\* Two workers handle track_activity requests of the account.  A request
\* first awards the points and evaluates the badges, and check_user_achievements
\* runs its query: the in_progress rows with their achievements
\* (select_related) become objects of the worker.  The for loop then works on
\* these objects; nothing locks or re-reads a row.
BeginRecordActivity(p, a) ==
    /\ pc[p] = "idle"
    /\ nops < MaxAchConcOps
    /\ Store(check_user_badges_of_request(
                 award_points_for_activity(World, a, 1, today), today))
    /\ pc' = [pc EXCEPT ![p] = "queried"]
    /\ local' = [local EXCEPT ![p] = [op |-> a, amount |-> 1, category |-> "",
                                      inst |-> FreshAccount,
                                      rows |-> uach, counts |-> total_completed]]
    /\ nops' = nops + 1
    /\ call' = [op |-> a, amount |-> 1, category |-> ""]
    /\ UNCHANGED <<response, today, advances>>
    /\ UNCHANGED achVars
    /\ UNCHANGED rankVars
    /\ UNCHANGED catalogVars
    /\ UNCHANGED eventVars

\* The saves of the loop: a row the loop changed is written as the worker's
\* object holds it (self.save()), and so is the Achievement of a row it
\* completed (self.achievement.save()); the other rows stay as stored.
StoreLoaded(r, rows, counts) ==
    /\ Store(r.w)
    /\ uach' = [n \in AchievementNames |->
                  IF r.uach[n] # rows[n] THEN r.uach[n] ELSE uach[n]]
    /\ total_completed' = [n \in AchievementNames |->
                  IF r.total_completed[n] # counts[n]
                  THEN r.total_completed[n] ELSE total_completed[n]]

FinishRecordActivity(p) ==
    /\ pc[p] = "queried"
    /\ StoreLoaded(check_user_achievements(
                       [w |-> World, uach |-> local[p].rows,
                        total_completed |-> local[p].counts],
                       local[p].op, today),
                   local[p].rows, local[p].counts)
    /\ pc' = [pc EXCEPT ![p] = "idle"]
    /\ local' = [local EXCEPT ![p] = NoRequest]
    /\ call' = NoCall
    /\ UNCHANGED <<response, today, advances, nops>>
    /\ UNCHANGED rankVars
    /\ UNCHANGED catalogVars
    /\ UNCHANGED eventVars

NextAchConc ==
    \/ \E p \in Workers : \E a \in ConcurrentActivities : BeginRecordActivity(p, a)
    \/ \E p \in Workers : FinishRecordActivity(p)

SpecAchConc == InitAch /\ [][NextAchConc]_vars

\* ------------------------------------------------------ event registrations
\* signals.award_points_for_event_activity, the post_save receiver of
\* EventRegistration: it looks at created and at the status of the saved row.
award_points_for_event_activity(w, row, created, day) ==
    IF created /\ row.status = "registered"
    THEN award_points_for_activity(w, "event_register", 1, day)
    ELSE IF row.status = "attended" /\ ~created
    THEN award_points_for_activity(w, "event_attend", 1, day)
    ELSE w

\* The user registers for the event: EventRegistration is created with the
\* default status.
RegisterForEvent ==
    /\ nops < MaxEventOps
    /\ ~registration.exists
    /\ registration' = [exists |-> TRUE, status |-> "registered", feedback_rating |-> 0]
    /\ Store(award_points_for_event_activity(World, registration', TRUE, today))
    /\ nops' = nops + 1
    /\ call' = [op |-> "register", amount |-> 0, category |-> ""]
    /\ UNCHANGED <<response, today, advances, pc, local>>
    /\ UNCHANGED achVars
    /\ UNCHANGED rankVars
    /\ UNCHANGED catalogVars

\* EventRegistration.check_in: only a registered row is checked in and saved.
CheckIn ==
    /\ nops < MaxEventOps
    /\ registration.exists
    /\ IF registration.status = "registered"
       THEN /\ registration' = [registration EXCEPT !.status = "attended"]
            /\ Store(award_points_for_event_activity(World, registration', FALSE, today))
       ELSE /\ UNCHANGED registration
            /\ UNCHANGED <<up, txns, ubadges, total_earned, passes, notifications>>
    /\ nops' = nops + 1
    /\ call' = [op |-> "check_in", amount |-> 0, category |-> ""]
    /\ UNCHANGED <<response, today, advances, pc, local>>
    /\ UNCHANGED achVars
    /\ UNCHANGED rankVars
    /\ UNCHANGED catalogVars

\* EventRegistration.cancel_registration
CancelRegistration ==
    /\ nops < MaxEventOps
    /\ registration.exists
    /\ IF registration.status \in {"registered", "waitlisted"}
       THEN /\ registration' = [registration EXCEPT !.status = "cancelled"]
            /\ Store(award_points_for_event_activity(World, registration', FALSE, today))
       ELSE /\ UNCHANGED registration
            /\ UNCHANGED <<up, txns, ubadges, total_earned, passes, notifications>>
    /\ nops' = nops + 1
    /\ call' = [op |-> "cancel_registration", amount |-> 0, category |-> ""]
    /\ UNCHANGED <<response, today, advances, pc, local>>
    /\ UNCHANGED achVars
    /\ UNCHANGED rankVars
    /\ UNCHANGED catalogVars

\* EventRegistration.submit_feedback: save(update_fields=[...]) sends
\* post_save as any other save does.
SubmitFeedback(rating) ==
    /\ nops < MaxEventOps
    /\ registration.exists
    /\ registration' = [registration EXCEPT !.feedback_rating = rating]
    /\ Store(award_points_for_event_activity(World, registration', FALSE, today))
    /\ nops' = nops + 1
    /\ call' = [op |-> "submit_feedback", amount |-> rating, category |-> ""]
    /\ UNCHANGED <<response, today, advances, pc, local>>
    /\ UNCHANGED achVars
    /\ UNCHANGED rankVars
    /\ UNCHANGED catalogVars

NextEvents ==
    \/ RegisterForEvent
    \/ CheckIn
    \/ CancelRegistration
    \/ \E rating \in FeedbackRatings : SubmitFeedback(rating)
    \/ \E k \in DayJumps : AdvanceDay(k)

SpecEvents == Init /\ [][NextEvents]_vars

\* ------------------------------------------------------------ daily logins
\* The daily task over several days, next to ordinary grants.
AwardDailyLoginPoints(logged_in_today) ==
    /\ Store(award_daily_login_points(World, logged_in_today, today))
    /\ call' = [op |-> "award_daily_login_points", amount |-> 0, category |-> ""]
    /\ UNCHANGED <<response, today, advances, nops, pc, local>>
    /\ UNCHANGED achVars
    /\ UNCHANGED rankVars
    /\ UNCHANGED catalogVars
    /\ UNCHANGED eventVars

GrantOnLoginDay(points, category) ==
    /\ nops < MaxLoginOps
    /\ Store(add_points(World, get_or_create(World), points, category, today))
    /\ nops' = nops + 1
    /\ call' = [op |-> "add_points", amount |-> points, category |-> category]
    /\ UNCHANGED <<response, today, advances, pc, local>>
    /\ UNCHANGED achVars
    /\ UNCHANGED rankVars
    /\ UNCHANGED catalogVars
    /\ UNCHANGED eventVars

NextLoginDay(k) ==
    /\ advances < MaxLoginDays
    /\ today' = today + k
    /\ advances' = advances + 1
    /\ call' = NoCall
    /\ UNCHANGED <<up, txns, ubadges, total_earned, passes, notifications, response, nops, pc, local>>
    /\ UNCHANGED achVars
    /\ UNCHANGED rankVars
    /\ UNCHANGED catalogVars
    /\ UNCHANGED eventVars

NextLogin ==
    \/ \E b \in BOOLEAN : AwardDailyLoginPoints(b)
    \/ \E points \in AwardAmounts : GrantOnLoginDay(points, "activity")
    \/ \E k \in LoginDayJumps : NextLoginDay(k)

SpecLogin == Init /\ [][NextLogin]_vars

\* ------------------------------------------------------------------ claims
AllIdle == \A p \in Workers : pc[p] = "idle"

\* The step just taken handled a grant request (recordActivity of a known
\* activity type, or awardPoints), and GrantedPoints is its amount.
IsGrantCall(c) == c.op = "add_points" \/ c.op \in KnownActivities
GrantedPoints(c) ==
    IF c.op = "add_points" THEN c.amount ELSE ActivityPoints(c.op, c.amount)
GrantedCategory(c) ==
    IF c.op = "add_points" THEN c.category ELSE ActivityCategory(c.op)
GrantStep == nops' = nops + 1 /\ IsGrantCall(call')

Buckets(u) == u.activity_points + u.social_points + u.leadership_points
              + u.academic_points + u.special_points

\* C1: after any sequence of grants and spends run one after another, the
\* stored total_points equals the signed sum of the account's transactions.
C1_TotalEqualsLedgerSum == up.total_points = SumPoints(txns)

\* C2: two concurrently started grant/spend operations lose no update: once
\* both have finished, total_points equals the signed sum of the transactions.
C2_NoLostUpdate == AllIdle => up.total_points = SumPoints(txns)

\* C3: every transaction's balance_after equals the running sum of the
\* account's transaction amounts up to and including itself.
C3_BalanceAfterIsRunningSum ==
    \A i \in 1..Len(txns) : txns[i].balance_after = SumPoints(SubSeq(txns, 1, i))

\* C4: the transaction log is append-only: every step keeps the existing
\* rows, unchanged and in place.
C4_AppendOnly ==
    [][Len(txns') >= Len(txns) /\ SubSeq(txns', 1, Len(txns)) = txns]_vars

\* C5: a grant with a non-positive amount is rejected before any mutation:
\* the account row and the transaction log stay as they were.
C5_NonPositiveGrantRejected ==
    [][(GrantStep /\ GrantedPoints(call') <= 0) => (up' = up /\ txns' = txns)]_vars

\* C6: a grant that grants no badge levels up as specified.  With k the
\* number of level-ups of the step: experience drops by the k thresholds
\* passed, points_to_next_level is 100 + (level-1)*50 for the new level,
\* total_points gains the amount plus the bonuses (level*50 for each level
\* reached) while lifetime_points and the buckets gain the amount only, and
\* the log gains one level_bonus row per level reached, then the earned row.
\* Two grants of 60 on a fresh account give level 2, experience 20,
\* points_to_next_level 150, a level_bonus of 100 and total_points 220.
ThresholdSum(level, k) == 100 * k + 50 * (k * (level - 1) + (k * (k - 1)) \div 2)
BonusSum(level, k) == 50 * (k * level + (k * (k + 1)) \div 2)

LevelUpRelation(u, v, old, new, pts) ==
    LET k == v.level - u.level
    IN  /\ k >= 0
        /\ v.experience_points = u.experience_points + pts - ThresholdSum(u.level, k)
        /\ k > 0 => v.experience_points >= 0
        /\ v.points_to_next_level = 100 + (v.level - 1) * 50
        /\ v.total_points = u.total_points + pts + BonusSum(u.level, k)
        /\ v.lifetime_points = u.lifetime_points + pts
        /\ Buckets(v) = Buckets(u) + pts
        /\ Len(new) = Len(old) + k + 1
        /\ SubSeq(new, 1, Len(old)) = old
        /\ \A j \in 1..k :
              /\ new[Len(old) + j].transaction_type = "level_bonus"
              /\ new[Len(old) + j].points = (u.level + j) * 50
        /\ new[Len(new)].transaction_type = "earned"
        /\ new[Len(new)].points = pts

SecondGrantOfSixty ==
    /\ GrantStep /\ GrantedPoints(call') = 60
    /\ up = [FreshAccount EXCEPT !.total_points = 60, !.lifetime_points = 60,
                                 !.activity_points = 60, !.experience_points = 60,
                                 !.current_streak = up.current_streak,
                                 !.longest_streak = up.longest_streak,
                                 !.last_activity_date = up.last_activity_date]
    /\ ubadges = NoBadges

C7_ExperienceBelowThreshold == up.experience_points < up.points_to_next_level

C7_Witness ==
    /\ IsGrantCall(call) /\ GrantedPoints(call) > 0
    /\ up.level >= 3
    /\ up.experience_points > 0

\* C8: the stored level of the account never decreases.
C8_LevelNeverDecreases == [][up'.level >= up.level]_vars

\* C9: the streak update of a grant: last_activity_date today leaves the
\* three streak fields alone; yesterday adds one to current_streak; anything
\* else sets it to 1; in the last two cases longest_streak becomes the
\* maximum of itself and current_streak and last_activity_date becomes today.
C9_StreakCases ==
    [][ GrantStep =>
          IF up.last_activity_date # 0 /\ up.last_activity_date = today
          THEN /\ up'.current_streak = up.current_streak
               /\ up'.longest_streak = up.longest_streak
               /\ up'.last_activity_date = up.last_activity_date
          ELSE /\ up'.current_streak =
                     IF up.last_activity_date # 0 /\ up.last_activity_date = today - 1
                     THEN up.current_streak + 1 ELSE 1
               /\ up'.longest_streak = Max(up.longest_streak, up'.current_streak)
               /\ up'.last_activity_date = today ]_vars

C9_Witness ==
    /\ IsGrantCall(call)
    /\ up.last_activity_date = today
    /\ up.current_streak = 1 /\ up.longest_streak = 2

\* C10: longest_streak >= current_streak in every stored state, whatever the
\* interleaving of the workers and the days on which they grant.
C10_LongestAtLeastCurrent == up.longest_streak >= up.current_streak

C10_Witness ==
    /\ AllIdle
    /\ up.current_streak = 1 /\ up.longest_streak = 2
    /\ up.last_activity_date = today

\* C11: the account never has more than one UserBadge row of a badge (every
\* badge of the catalogue is non-repeatable), whatever the interleaving of
\* evaluations and administrative awards.
C11_AtMostOneRowPerBadge == \A b \in BadgeNames : ubadges[b] <= 1

\* A worker passed the 'already granted' test of the badge found for entry i
\* and then lost the insert to the other worker.
LostInsert(p, i) == pc[p] = "evaluating" /\ i \in local[p].caught

C11_Witness ==
    /\ ubadges["Leader"] = 1
    /\ \E p \in Workers : LostInsert(p, 6)

\* C12: when two evaluations of an account whose total_points is 500 have
\* both returned, the account has exactly one UserBadge row of the default
\* badge "Point Collector" (rule total_points >= 500).
C12_PointCollectorGrantedOnce ==
    (\A p \in Workers : /\ response[p].op = "check_user_badges"
                         /\ response[p].status = "ok"
                         /\ response[p].seen_total = 500)
        => ubadges["Point Collector"] = 1

\* C13: a grant attempt that loses the race on the uniqueness constraint is
\* rejected without an error reaching the caller, in check_user_badges and
\* in the administrative awardBadge: no request ends with an error.
C13_DuplicateRejectedQuietly == \A p \in Workers : response[p].status # "error"

\* C14: every inserted UserBadge row adds exactly one to Badge.total_earned:
\* for each badge the counter equals the number of UserBadge rows of it.
C14_TotalEarnedEqualsRows == \A b \in BadgeNames : total_earned[b] = ubadges[b]

\* C15: a failure while evaluating or granting one badge is confined to that
\* badge: a pass of check_user_badges that reaches its return has evaluated
\* every entry of its rule table, whatever exceptions it caught on the way.
C15_FailureIsolatedPerBadge ==
    \A p \in Workers :
        (pc[p] = "evaluating" /\ local[p].idx > Len(badge_requirements))
            => local[p].visited = 1..Len(badge_requirements)

\* A pass lost the insert of "Leader" (entry 6), went on, caught the
\* AttributeError of the last entry and is about to return.
C15_Witness ==
    \E p \in Workers :
        /\ pc[p] = "evaluating" /\ local[p].idx > Len(badge_requirements)
        /\ local[p].caught = {6, 11}
        /\ local[p].visited = 1..Len(badge_requirements)

\* C16: the cascade started by one grant ends, and it runs at most 3 passes
\* of badge evaluation, whatever the grant and the badges it unlocks.
C16_EvaluationPassesCapped == IsGrantCall(call) => passes <= 3

TerminalStatuses == {"completed", "failed", "expired"}

\* C17: a UserAchievement row whose status is completed, failed or expired
\* is never changed again (status, progress, progress_percentage,
\* completed_at), its achievement's total_completed stays, and an
\* update_progress call on it writes no transaction.
C17_TerminalStatusesAbsorb ==
    [][ \A n \in AchievementNames :
          (uach[n].exists /\ uach[n].status \in TerminalStatuses)
              => /\ uach'[n] = uach[n]
                 /\ total_completed'[n] = total_completed[n]
                 /\ (call'.op = "update_progress" /\ call'.category = n)
                        => txns' = txns ]_vars

\* C18: as long as a UserAchievement row is in_progress, the activity signals
\* (each adds one to one counter) never lower its progress_percentage.
C18_PercentageNeverDecreases ==
    [][ \A n \in AchievementNames :
          (uach[n].exists /\ uach[n].status = "in_progress")
              => uach'[n].progress_percentage >= uach[n].progress_percentage ]_vars

C18_Witness ==
    /\ uach["Spring Challenge"].status = "in_progress"
    /\ uach["Spring Challenge"].progress_percentage = 50
    /\ uach["Spring Challenge"].progress = [clubs_joined |-> 1, events_attended |-> 1]

\* The event_attend requests handled so far, and the rewards of "Event
\* Regular" in the log.
EventAttendCalls ==
    Cardinality({i \in 1..Len(txns) : /\ txns[i].transaction_type = "earned"
                                      /\ txns[i].category = "activity"
                                      /\ txns[i].points = points_map["event_attend"]})
EventRegularRewards ==
    Cardinality({i \in 1..Len(txns) :
                    /\ txns[i].transaction_type = "earned"
                    /\ txns[i].category = "special"
                    /\ txns[i].points = AchievementCatalog["Event Regular"].points_reward})

\* C19: for the achievement whose only requirement is events_attended >= 5,
\* before the fifth event_attend the row is in_progress, nothing was granted
\* and total_completed is 0; from the fifth on the row is completed with the
\* counter at 5, the reward was granted once and total_completed is 1.
C19_CompletedOnceAtFive ==
    LET row == uach["Event Regular"]
        counter == IF "events_attended" \in DOMAIN row.progress
                   THEN row.progress["events_attended"] ELSE 0
    IN  IF EventAttendCalls < 5
        THEN /\ row.status = "in_progress" /\ counter = EventAttendCalls
             /\ row.completed_at = 0
             /\ EventRegularRewards = 0 /\ total_completed["Event Regular"] = 0
        ELSE /\ row.status = "completed" /\ counter = 5
             /\ row.progress_percentage = 100 /\ row.completed_at # 0
             /\ EventRegularRewards = 1 /\ total_completed["Event Regular"] = 1

C19_Witness ==
    /\ EventAttendCalls >= 6
    /\ call.op = "event_attend"
    /\ uach["Event Regular"].status = "completed"
    /\ EventRegularRewards = 1

SweepStep == call'.op = "expire_seasonal_achievements" /\ nops' = nops /\ today' = today

\* The end_date of the achievement lies before the day.
Elapsed(n, day) ==
    AchievementCatalog[n].end_date # 0 /\ AchievementCatalog[n].end_date < day

RankingPassAfter(c) == c.op = "update_user_rankings"

C21_RankingPassIdempotent ==
    [][RankingPassAfter(call) /\ RankingPassAfter(call')
        => \A u \in Accounts : /\ users'[u].global_rank = users[u].global_rank
                               /\ users'[u].college_rank = users[u].college_rank]_vars

\* C22: after a ranking pass, in the global scope and in the scope of each
\* college, the ranks of the active users are exactly 1..N, and a strictly
\* larger total_points has a strictly smaller rank.
Colleges == { users[u].college : u \in Accounts }

ScopeRanked(scope, rank(_)) ==
    /\ \A u, v \in scope : u # v => rank(u) # rank(v)
    /\ { rank(u) : u \in scope } = 1..Cardinality(scope)
    /\ \A u, v \in scope :
          users[u].total_points > users[v].total_points => rank(u) < rank(v)

GlobalScopeRanked ==
    LET rank(u) == users[u].global_rank
    IN  ScopeRanked(ranked_users(users), rank)

CollegeScopesRanked ==
    LET rank(u) == users[u].college_rank
    IN  \A c \in Colleges :
           ScopeRanked({ u \in ranked_users(users) : users[u].college = c }, rank)

C22_RanksAreOneToN ==
    RankingPassAfter(call) => GlobalScopeRanked /\ CollegeScopesRanked

\* C23: a failure while creating the badge_earned notification neither undoes
\* nor prevents the ledger effects of the badge grant: after a grant whose
\* notification raised, the UserBadge row and the reward transaction are
\* there, total_points has grown, and the request leaves the ledger as it
\* leaves it when the notification is delivered.
NotificationRaised(b) == ubadges'[b] > ubadges[b] /\ notifications' = notifications

\* The store the request leaves when the notification is delivered.
DeliveredOutcome(c) ==
    IF c.op = "award_badge"
    THEN create_user_badge(World, c.category, today)
    ELSE add_points(World, get_or_create(World), c.amount, c.category, today)

RewardTransaction(t, b) ==
    /\ t.points = BadgeReward(b)
    /\ t.transaction_type = "earned"
    /\ t.category = "special"

C23_NotificationFailureKeepsLedger ==
    [][\A b \in BadgeNames :
         NotificationRaised(b) =>
           /\ ubadges'[b] = ubadges[b] + 1
           /\ \E i \in (Len(txns) + 1)..Len(txns') : RewardTransaction(txns'[i], b)
           /\ up'.total_points > up.total_points
           /\ LET ok == DeliveredOutcome(call')
              IN  up' = ok.up /\ txns' = ok.txns /\ ubadges' = ok.ubadges]_vars

C23_Witness ==
    /\ call.op = "add_points"
    /\ ubadges["Leader"] = 1
    /\ notifications = 0
    /\ \E i \in 1..Len(txns) : RewardTransaction(txns[i], "Leader")

\* C24: recordActivity with an activity type that the Activity Mapper's table
\* does not hold is rejected with an error, and it changes no points, no
\* transaction, no badge and no achievement progress.
UnknownActivityStep ==
    /\ nops' = nops + 1
    /\ response'[1].op = "track_activity"
    /\ call'.op \notin KnownActivities

C24_UnknownActivityRejected ==
    [][UnknownActivityStep =>
         /\ response'[1].status = "bad_request"
         /\ up' = up /\ txns' = txns /\ ubadges' = ubadges /\ uach' = uach]_vars

\* The half of C24 that the code keeps: the call changes nothing.
UnknownActivityMutatesNothing ==
    [][UnknownActivityStep =>
         up' = up /\ txns' = txns /\ ubadges' = ubadges /\ uach' = uach]_vars

\* C25: spend(account, amount) with amount >= 0 takes exactly
\* min(amount, total_points) from total_points, appends one transaction whose
\* amount is the negative of that clamped value, and leaves lifetime_points,
\* the five category buckets, experience_points, level and the streak fields
\* as they were.
SpendStep == nops' = nops + 1 /\ call'.op = "deduct_points"

Min(a, b) == IF a < b THEN a ELSE b

SpendFrame(u, v) ==
    /\ v.lifetime_points = u.lifetime_points
    /\ v.activity_points = u.activity_points
    /\ v.social_points = u.social_points
    /\ v.leadership_points = u.leadership_points
    /\ v.academic_points = u.academic_points
    /\ v.special_points = u.special_points
    /\ v.experience_points = u.experience_points
    /\ v.level = u.level
    /\ v.points_to_next_level = u.points_to_next_level
    /\ v.current_streak = u.current_streak
    /\ v.longest_streak = u.longest_streak
    /\ v.last_activity_date = u.last_activity_date

C25_SpendClampsAndFrames ==
    [][SpendStep /\ call'.amount >= 0 =>
         LET clamped == Min(call'.amount, up.total_points)
         IN  /\ up'.total_points = up.total_points - clamped
             /\ Len(txns') = Len(txns) + 1
             /\ txns'[Len(txns')].points = 0 - clamped
             /\ txns'[Len(txns')].transaction_type = "spent"
             /\ SubSeq(txns', 1, Len(txns)) = txns
             /\ SpendFrame(up, up')]_vars

\* A spend of 30 from a balance between 1 and 29 was clamped to the balance.
C25_Witness ==
    /\ call.op = "deduct_points" /\ call.amount = 30
    /\ up.total_points = 0
    /\ Len(txns) > 0
    /\ txns[Len(txns)].points \in -29..-1

\* C29: for an account with total_points >= 0 and any integer amount, negative
\* ones included, deduct_points leaves total_points between 0 and its previous
\* value: spending never makes the balance negative and never raises it.
C29_SpendNeverRaisesBalance ==
    [][SpendStep /\ up.total_points >= 0 =>
         /\ up'.total_points >= 0
         /\ up'.total_points <= up.total_points]_vars

\* C26: badge evaluation grants a badge to the account only if the rule stored
\* on that badge (Badge.requirements) is satisfied by the account's state.
StoredRuleMet(rule, profile) ==
    CASE rule.field = "total_points"      -> profile.total_points >= rule.value
      [] rule.field = "social_points"     -> profile.social_points >= rule.value
      [] rule.field = "leadership_points" -> profile.leadership_points >= rule.value
      [] rule.field = "current_streak"    -> profile.current_streak >= rule.value
      [] OTHER -> FALSE

GrantedByEvaluation(b) == call'.op = "add_points" /\ ubadges'[b] > ubadges[b]

C26_GrantOnlyByStoredRule ==
    [][\A b \in BadgeNames :
         GrantedByEvaluation(b) => StoredRuleMet(requirements[b], up')]_vars

\* C27: when concurrent recordActivity calls of one account bring the same
\* in_progress achievement to 100, its points_reward is granted exactly once
\* and Achievement.total_completed is incremented exactly once.
C27_CompletionRewardedOnce ==
    AllIdle /\ uach["Event Regular"].status = "completed"
        => /\ EventRegularRewards = 1
           /\ total_completed["Event Regular"] = 1

\* C28: one event registration yields the event_attend points at most once:
\* after the check-in granted them, no later save of the registration, such
\* as submit_feedback, grants them again.
C28_AttendPointsAtMostOnce == EventAttendCalls <= 1

\* C30: in award_daily_login_points a streak_milestone bonus of 10 times the
\* streak is granted exactly when the current_streak stored after the run's
\* daily_login grant is a positive multiple of 7.
LoginGrantStep ==
    call'.op = "award_daily_login_points" /\ Len(txns') > Len(txns)

MilestoneTransaction(t) ==
    /\ t.transaction_type = "earned"
    /\ t.category = "special"
    /\ t.points # points_map["daily_login"]

C30_MilestoneAtStoredStreak ==
    [][LoginGrantStep =>
         /\ (\E i \in (Len(txns) + 1)..Len(txns') : MilestoneTransaction(txns'[i]))
               <=> (up'.current_streak > 0 /\ up'.current_streak % 7 = 0)
         /\ \A i \in (Len(txns) + 1)..Len(txns') :
               MilestoneTransaction(txns'[i])
                   => txns'[i].points = StreakMilestoneFactor * up'.current_streak]_vars

====
